---- MODULE Spec2Model ----
(***************************************************************************)
(* The grid world of simulation/src/lib.rs and the organisms of            *)
(* simulation/src/organism.rs as a state machine.  The public operations   *)
(* of Grid are actions enabled while no step() is running (pc = "idle");   *)
(* step() is the forced sequence of its phases, each an action, in the     *)
(* order of Grid::update_organisms and Grid::step.                         *)
(***************************************************************************)
EXTENDS Integers, Sequences, FiniteSets, TLC

VARIABLES
    width, height,            \* Grid.width, Grid.height
    cells,                    \* Grid.cells, row-major, index 0 .. width*height-1
    pixels,                   \* Grid.pixels
    organisms,                \* Grid.organisms
    next_organism_id,         \* Grid.next_organism_id
    food_production_prob,     \* Grid.food_production_prob, per mille
    max_organisms,            \* Grid.max_organisms
    lifespan_multiplier,      \* Grid.lifespan_multiplier
    insta_kill,               \* Grid.insta_kill
    food_blocks_reproduction, \* Grid.food_blocks_reproduction
    pc,                       \* position inside step(), "idle" between calls
    idx,                      \* loop index of the phase that is running
    new_organisms,            \* process_reproduction's queue of offspring
    ret,                      \* the last call and what it returned
    ops,                      \* number of calls made so far, step() included
    grown,                    \* number of tiles random draws have made Food so far
    births,                   \* number of offspring try_reproduce has returned so far
    before,                   \* the registry and tiles when the last step() began
    loop                      \* the while loop that is running, if one is followed

vars == <<width, height, cells, pixels, organisms, next_organism_id,
          food_production_prob, max_organisms, lifespan_multiplier, insta_kill,
          food_blocks_reproduction, pc, idx, new_organisms, ret, ops, grown, births,
          before, loop>>

config == <<food_production_prob, max_organisms, lifespan_multiplier, insta_kill,
            food_blocks_reproduction>>

----------------------------------------------------------------------------
(* Bounds of the exploration. *)

MaxW == 4            \* width of the strip explored
MaxH == 3            \* side of the square grid explored
MaxOps == 4          \* calls, step() included, in one behaviour
MaxGrow == 1         \* tiles that random draws turn into Food in one behaviour
MaxBirths == 1       \* offspring that try_reproduce returns in one behaviour
MaxJitter == 0       \* largest change of move_range and mutability at a birth
LargeSide == 7       \* side of the large grid that is seeded by hand
MaxSeeds == 1        \* calls made before a while loop is followed

----------------------------------------------------------------------------
(* Values. *)

\* A u32 is held as the i32 with the same 32 bits (4294967295 is -1), since the
\* integers of TLC are 32 bits wide: the casts `as u32` and `as i32` then
\* change nothing, and the order of u32 is ULt.
ULt(a, b) == IF (a < 0) = (b < 0) THEN a < b ELSE b < 0

Max(a, b) == IF a >= b THEN a ELSE b
Min(a, b) == IF a <= b THEN a ELSE b
Abs(a) == IF a < 0 THEN -a ELSE a

EnvStates == {"Empty", "Food", "Wall"}
BodyStates == {"Mouth", "Producer", "Mover", "Killer", "Armor", "Eye"}
CellState == EnvStates \cup BodyStates

to_color(state) ==
    CASE state = "Empty" -> 922392          \* 0x0E1318
      [] state = "Food" -> 3111607          \* 0x2F7AB7
      [] state = "Wall" -> 8421504          \* 0x808080
      [] state = "Mouth" -> 14594381        \* 0xDEB14D
      [] state = "Producer" -> 1433177      \* 0x15DE59
      [] state = "Mover" -> 6345983         \* 0x60D4FF
      [] state = "Killer" -> 16261248       \* 0xF82380
      [] state = "Armor" -> 7483611         \* 0x7230DB
      [] state = "Eye" -> 11977194          \* 0xB6C1EA

\* Option<usize>: None is the empty set, Some(id) the singleton.
None == {}
Some(v) == {v}

Cell(state, owner) == [state |-> state, owner |-> owner]

Direction == {"Up", "Right", "Down", "Left"}

to_delta(d) ==
    CASE d = "Up" -> <<0, -1>>
      [] d = "Right" -> <<1, 0>>
      [] d = "Down" -> <<0, 1>>
      [] d = "Left" -> <<-1, 0>>

\* OrganismCell::new: only an Eye is given a facing, drawn at random.
OrganismCell(state, x, y, direction) ==
    [state |-> state, x |-> x, y |-> y, direction |-> direction]

get_rotated_position(cell, rotation) ==
    CASE rotation = "Up" -> <<cell.x, cell.y>>
      [] rotation = "Right" -> <<cell.y, -cell.x>>
      [] rotation = "Down" -> <<-cell.x, -cell.y>>
      [] rotation = "Left" -> <<-cell.y, cell.x>>

get_cell_position(org, cell) ==
    LET d == get_rotated_position(cell, org.rotation)
    IN <<(org.x + d[1]), (org.y + d[2])>>

\* Organism::add_cell for a cell without facing.
add_cell(org, state, x, y) ==
    LET cs == Append(org.cells, OrganismCell(state, x, y, None))
    IN [org EXCEPT !.cells = cs, !.health = Len(cs)]

\* Organism::new; move_direction is the random draw.
OrganismNew(id, x, y, move_direction) ==
    add_cell([id |-> id, x |-> x, y |-> y, rotation |-> "Up",
              move_direction |-> move_direction, cells |-> <<>>,
              food_collected |-> 0, health |-> 0, lifetime |-> 0,
              mutability |-> 5, move_range |-> 4, move_counter |-> 0,
              is_alive |-> TRUE],
             "Mouth", 0, 0)

RECURSIVE add_cells(_, _)
add_cells(org, plan) ==
    IF plan = <<>> THEN org
    ELSE add_cells(add_cell(org, plan[1][1], plan[1][2], plan[1][3]), Tail(plan))

has_movers(org) == \E i \in 1..Len(org.cells) : org.cells[i].state = "Mover"

food_needed_to_reproduce(org) ==
    IF has_movers(org) THEN Len(org.cells) + 1 ELSE Len(org.cells)

\* max_lifespan with one tick of grace.
max_lifespan_grace(org, multiplier) == Max(Len(org.cells) * multiplier, 1) + 1

max_lifespan(org, multiplier) == Max(Len(org.cells) * multiplier, 1)

----------------------------------------------------------------------------
(* The grid.  G is the part of Grid that the operations below rewrite.    *)

InBounds(x, y) == ULt(x, width) /\ ULt(y, height)

Index(x, y) == y * width + x

Tiles == 0 .. (width * height - 1)

G0 == [cells |-> cells, pixels |-> pixels, organisms |-> organisms,
       next_organism_id |-> next_organism_id]

set_cell(g, x, y, state, owner) ==
    IF InBounds(x, y)
    THEN [g EXCEPT !.cells[Index(x, y)] = Cell(state, owner),
                   !.pixels[Index(x, y)] = to_color(state)]
    ELSE g

get_pixel(x, y) == IF InBounds(x, y) THEN pixels[Index(x, y)] ELSE 0

\* is_position_clear taking a Wall tile for a clear one.
is_position_clear_through_walls(cs, x, y) ==
    InBounds(x, y) /\ cs[Index(x, y)].state \in {"Empty", "Food", "Wall"}

is_position_clear(cs, x, y) ==
    InBounds(x, y) /\ cs[Index(x, y)].state \in {"Empty", "Food"}

\* Grid::get_cell: Some(cell) in bounds, None beyond.
get_cell(cs, x, y) == IF InBounds(x, y) THEN {cs[Index(x, y)]} ELSE {}

\* has_food_at reading the nearest tile of the grid instead of refusing.
has_food_at_nearest(cs, x, y) ==
    /\ width * height > 0
    /\ cs[Index(IF ULt(x, width) THEN x ELSE width - 1,
                IF ULt(y, height) THEN y ELSE height - 1)].state = "Food"

has_food_at(cs, x, y) ==
    InBounds(x, y) /\ cs[Index(x, y)].state = "Food"

\* The test of one body cell that lets a cell beyond the grid pass.
cell_can_be_placed_beyond(g, org, cell) ==
    LET p == get_cell_position(org, cell)
    IN InBounds(p[1], p[2]) => g.cells[Index(p[1], p[2])].state \in {"Empty", "Food"}

\* The test of one body cell in is_position_clear_for_organism.
cell_can_be_placed(g, org, cell) ==
    LET p == get_cell_position(org, cell)
    IN /\ InBounds(p[1], p[2])
       /\ LET state == g.cells[Index(p[1], p[2])].state
          IN \/ (state = "Food" /\ ~food_blocks_reproduction)
             \/ state \in {"Empty", "Food"}

is_position_clear_for_organism(g, org) ==
    \A i \in 1..Len(org.cells) : cell_can_be_placed(g, org, org.cells[i])

RECURSIVE stamp(_, _, _)
\* set_cell for the body cells i.. of org, in order, with org as owner.
stamp(g, org, i) ==
    IF i > Len(org.cells) THEN g
    ELSE LET p == get_cell_position(org, org.cells[i])
         IN stamp(set_cell(g, p[1], p[2], org.cells[i].state, Some(org.id)), org, i + 1)

\* add_organism stamping the body before it tests the placement.
add_organism_torn(g, organism) ==
    IF Len(g.organisms) >= max_organisms /\ max_organisms > 0
    THEN [g |-> g, ok |-> FALSE]
    ELSE LET org == IF organism.id = 0
                    THEN [organism EXCEPT !.id = g.next_organism_id]
                    ELSE organism
             g1 == IF organism.id = 0
                   THEN [g EXCEPT !.next_organism_id = @ + 1]
                   ELSE g
         IN IF is_position_clear_for_organism(g1, org)
            THEN [g |-> [stamp(g1, org, 1) EXCEPT !.organisms = Append(@, org)],
                  ok |-> TRUE]
            ELSE [g |-> stamp(g1, org, 1), ok |-> FALSE]

\* add_organism without the test of max_organisms.
add_organism_uncapped(g, organism) ==
    LET org == IF organism.id = 0
               THEN [organism EXCEPT !.id = g.next_organism_id]
               ELSE organism
        g1 == IF organism.id = 0
              THEN [g EXCEPT !.next_organism_id = @ + 1]
              ELSE g
    IN IF is_position_clear_for_organism(g1, org)
       THEN [g |-> [stamp(g1, org, 1) EXCEPT !.organisms = Append(@, org)],
             ok |-> TRUE]
       ELSE [g |-> g1, ok |-> FALSE]

\* Grid::add_organism: the grid it leaves and the value it returns.
add_organism(g, organism) ==
    IF Len(g.organisms) >= max_organisms /\ max_organisms > 0
    THEN [g |-> g, ok |-> FALSE]
    ELSE LET org == IF organism.id = 0
                    THEN [organism EXCEPT !.id = g.next_organism_id]
                    ELSE organism
             g1 == IF organism.id = 0
                   THEN [g EXCEPT !.next_organism_id = @ + 1]
                   ELSE g
         IN IF is_position_clear_for_organism(g1, org)
            THEN [g |-> [stamp(g1, org, 1) EXCEPT !.organisms = Append(@, org)],
                  ok |-> TRUE]
            ELSE [g |-> g1, ok |-> FALSE]

----------------------------------------------------------------------------
(* Inputs of the calls. *)

\* Grid::new(width, height): the two zero-area grids, the 1x1 grid, a strip, a
\* square.
GridDims == {<<0, 1>>, <<1, 0>>, <<1, 1>>, <<MaxW, 1>>, <<MaxH, MaxH>>}

\* Body plans handed to add_organism: the cells added to Organism::new's Mouth.
\* The second is what WasmGrid::add_custom_organism and create_basic_organism
\* do: add a Mouth at (0,0) to the one Organism::new has put there.
Plans == {<<>>,
          << <<"Mouth", 0, 0>> >>,
          << <<"Mover", 1, 0>> >>,
          << <<"Killer", 1, 0>> >>}

\* Tile states written by the callers of set_cell, and the columns they write:
\* the first, where organisms are anchored, two more of the grid and the one
\* beyond it.
SetStates == {"Food", "Wall"}
SetXs == {0, 1, 3, width}

\* The values of Direction::random() and of random_cell_state() that are explored.
DirectionDraws == {"Right"}
StateDraws == {"Mouth", "Killer"}

\* Values the drivers give the tunables.
MaxOrganismsInputs == {0, 1}
LifespanInputs == {1}
FoodRateInputs == {1000}     \* per mille: always
InstaKillInputs == {TRUE}
FoodBlocksInputs == {FALSE}

\* lifespan_multiplier when the first call is made: Grid::new's 100, or the 1
\* a driver has assigned to the field.
InitLifespans == {1, 100}

\* Anchors of the organisms handed to add_organism: two tiles of the first row
\* and the column beyond the grid.
AddXs == {0, 2, width}

----------------------------------------------------------------------------
(* The state after Grid::new. *)

\* The value of `before` while no step() has run since the last call.
NoStep == [organisms |-> <<>>, cells |-> <<>>]

\* The value of `loop` while no while loop is followed iteration by iteration.
NoLoop == [at |-> "none"]

Init ==
    /\ \E d \in GridDims : width = d[1] /\ height = d[2]
    /\ cells = [i \in Tiles |-> Cell("Empty", None)]
    /\ pixels = [i \in Tiles |-> 0]
    /\ organisms = <<>>
    /\ next_organism_id = 0
    /\ food_production_prob = 5       \* 0.005, per mille
    /\ max_organisms = 1000
    /\ lifespan_multiplier \in InitLifespans
    /\ insta_kill = FALSE
    /\ food_blocks_reproduction = TRUE
    /\ pc = "idle"
    /\ idx = 0
    /\ new_organisms = <<>>
    /\ ret = [op |-> "new", value |-> TRUE]
    /\ ops = 0
    /\ grown = 0
    /\ births = 0
    /\ before = NoStep
    /\ loop = NoLoop

----------------------------------------------------------------------------
(* The calls, made while no step() is running.  The drivers seed and tune a   *)
(* grid before they run it: after a step() the next call is step() or reset(). *)

Called(op, value) ==
    /\ pc = "idle"
    /\ ops < MaxOps
    /\ op = "reset" \/ ret.op # "step"
    /\ ops' = ops + 1
    /\ ret' = [op |-> op, value |-> value]
    /\ before' = NoStep
    /\ UNCHANGED <<width, height, pc, idx, new_organisms, grown, births, loop>>

Install(g) ==
    /\ cells' = g.cells
    /\ pixels' = g.pixels
    /\ organisms' = g.organisms
    /\ next_organism_id' = g.next_organism_id

\* WasmGrid::set_cell -> Grid::set_cell(x, y, state, None)
SetCell(x, y, state) ==
    /\ Called("set_cell", TRUE)
    /\ Install(set_cell(G0, x, y, state, None))
    /\ UNCHANGED config

\* Grid::add_organism on an organism built by Organism::new(0, x, y) and add_cell.
AddOrganism(plan, x, y, md) ==
    LET r == add_organism(G0, add_cells(OrganismNew(0, x, y, md), plan))
    IN /\ Called("add_organism", r.ok)
       /\ Install(r.g)
       /\ UNCHANGED config

\* The organism create_basic_organism builds.
basic_organism(g, x, y, md) ==
    add_cells(OrganismNew(g.next_organism_id, x, y, md),
              << <<"Mouth", 0, 0>>, <<"Producer", 1, 1>>, <<"Producer", -1, -1>> >>)

\* Grid::create_basic_organism
create_basic_organism(g, x, y, md) ==
    IF ~ULt(x, width) \/ ~ULt(y, height)
    THEN [g |-> g, ok |-> FALSE]
    ELSE add_organism(g, basic_organism(g, x, y, md))

CreateBasicOrganism(x, y, md) ==
    LET r == create_basic_organism(G0, x, y, md)
    IN /\ Called("create_basic_organism", r.ok)
       /\ Install(r.g)
       /\ UNCHANGED config

\* Grid::origin_of_life
OriginOfLife(md) ==
    LET r == create_basic_organism(G0, width \div 2, height \div 2, md)
    IN /\ Called("origin_of_life", TRUE)
       /\ Install(r.g)
       /\ UNCHANGED config

\* reset clearing the Wall tiles whatever clear_walls is.
reset_all(g, clear_walls) ==
    [cells |-> [i \in Tiles |-> Cell("Empty", None)],
     pixels |-> [i \in Tiles |-> to_color("Empty")],
     organisms |-> <<>>, next_organism_id |-> 0]

\* Grid::reset
reset(g, clear_walls) ==
    LET cs == [i \in Tiles |->
                  IF clear_walls \/ g.cells[i].state # "Wall"
                  THEN Cell("Empty", None) ELSE g.cells[i]]
    IN [cells |-> cs, pixels |-> [i \in Tiles |-> to_color(cs[i].state)],
        organisms |-> <<>>, next_organism_id |-> 0]

Reset(clear_walls) ==
    /\ Called("reset", clear_walls)
    /\ Install(reset(G0, clear_walls))
    /\ UNCHANGED config

SetFoodProductionRate(rate) ==
    /\ Called("set_food_production_rate", TRUE)
    /\ food_production_prob' = rate
    /\ UNCHANGED <<cells, pixels, organisms, next_organism_id, max_organisms,
                   lifespan_multiplier, insta_kill, food_blocks_reproduction>>

SetMaxOrganisms(max) ==
    /\ Called("set_max_organisms", TRUE)
    /\ max_organisms' = max
    /\ UNCHANGED <<cells, pixels, organisms, next_organism_id, food_production_prob,
                   lifespan_multiplier, insta_kill, food_blocks_reproduction>>

SetLifespanMultiplier(multiplier) ==
    /\ Called("set_lifespan_multiplier", TRUE)
    /\ lifespan_multiplier' = multiplier
    /\ UNCHANGED <<cells, pixels, organisms, next_organism_id, food_production_prob,
                   max_organisms, insta_kill, food_blocks_reproduction>>

SetInstaKill(b) ==
    /\ Called("set_insta_kill", TRUE)
    /\ insta_kill' = b
    /\ UNCHANGED <<cells, pixels, organisms, next_organism_id, food_production_prob,
                   max_organisms, lifespan_multiplier, food_blocks_reproduction>>

SetFoodBlocksReproduction(blocks) ==
    /\ Called("set_food_blocks_reproduction", TRUE)
    /\ food_blocks_reproduction' = blocks
    /\ UNCHANGED <<cells, pixels, organisms, next_organism_id, food_production_prob,
                   max_organisms, lifespan_multiplier, insta_kill>>

----------------------------------------------------------------------------
(* step(): the phases of update_organisms. *)

\* (v).max(0).min(n as i32 - 1) as u32
Clamp(v, n) == Min(Max(v, 0), n - 1)

\* The adjacents array of the neighbour scans.
Adjacents == {<<0, 1>>, <<1, 0>>, <<0, -1>>, <<-1, 0>>}

\* The clamped neighbour of the body cell `cell` of org in direction a.
Neighbour(org, cell, a) ==
    LET p == get_cell_position(org, cell)
    IN <<Clamp(p[1] + a[1], width), Clamp(p[2] + a[2], height)>>

\* The (body cell, direction) pairs of org whose cell is in state `state`.
Scans(org, state) ==
    {s \in (1..Len(org.cells)) \X Adjacents : org.cells[s[1]].state = state}

Step(from, to) ==
    /\ pc = from
    /\ pc' = to
    /\ UNCHANGED <<width, height, config, loop>>

\* The (Mouth cell, direction) pairs of org that find Food in cs.
FoodScans(cs, org) ==
    {s \in Scans(org, "Mouth") :
        LET n == Neighbour(org, org.cells[s[1]], s[2])
        IN has_food_at(cs, n[1], n[2])}

\* food_eaten of process_eating, as tile indices.
FoodEaten(cs, orgs) ==
    {Index(n[1], n[2]) :
        n \in UNION {{Neighbour(orgs[i], orgs[i].cells[s[1]], s[2]) :
                         s \in FoodScans(cs, orgs[i])} :
                     i \in {j \in 1..Len(orgs) : orgs[j].is_alive}}}

\* process_eating with the food handed out first come, first served: only the
\* first living organism of the registry is credited.
process_eating_first_come(g) ==
    LET eaten == FoodEaten(g.cells, g.organisms)
        first == {i \in 1..Len(g.organisms) :
                     /\ g.organisms[i].is_alive
                     /\ \A j \in 1..(i - 1) : ~g.organisms[j].is_alive}
    IN [g EXCEPT
          !.organisms = [i \in 1..Len(g.organisms) |->
              IF i \in first
              THEN [g.organisms[i] EXCEPT
                      !.food_collected = @ + Cardinality(FoodScans(g.cells, g.organisms[i]))]
              ELSE g.organisms[i]],
          !.cells = [t \in Tiles |->
              IF t \in eaten THEN Cell("Empty", None) ELSE g.cells[t]],
          !.pixels = [t \in Tiles |->
              IF t \in eaten THEN to_color("Empty") ELSE g.pixels[t]]]

\* Grid::process_eating
process_eating(g) ==
    LET eaten == FoodEaten(g.cells, g.organisms)
    IN [g EXCEPT
          !.organisms = [i \in 1..Len(g.organisms) |->
              IF g.organisms[i].is_alive
              THEN [g.organisms[i] EXCEPT
                      !.food_collected = @ + Cardinality(FoodScans(g.cells, g.organisms[i]))]
              ELSE g.organisms[i]],
          !.cells = [t \in Tiles |->
              IF t \in eaten THEN Cell("Empty", None) ELSE g.cells[t]],
          !.pixels = [t \in Tiles |->
              IF t \in eaten THEN to_color("Empty") ELSE g.pixels[t]]]

\* step() begins: the eating phase.
ProcessEating ==
    /\ Step("idle", "combat")
    /\ ops < MaxOps
    /\ ops' = ops + 1
    /\ ret' = [op |-> "step", value |-> TRUE]
    /\ before' = [organisms |-> organisms, cells |-> cells]
    /\ UNCHANGED <<grown, births>>
    /\ Install(process_eating(G0))
    /\ UNCHANGED <<idx, new_organisms>>

\* The hits of org's Killer cells on the tiles owned by the organism id target.
Hits(cs, org, target) ==
    {s \in Scans(org, "Killer") :
        LET n == Neighbour(org, org.cells[s[1]], s[2])
        IN /\ InBounds(n[1], n[2])
           /\ cs[Index(n[1], n[2])].owner = Some(target)
           /\ target # org.id
           /\ cs[Index(n[1], n[2])].state # "Armor"}

RECURSIVE SumDamage(_, _, _, _)
\* damage_map[target] over the organisms i.. of orgs.
SumDamage(cs, orgs, target, i) ==
    IF i > Len(orgs) THEN 0
    ELSE (IF orgs[i].is_alive THEN Cardinality(Hits(cs, orgs[i], target)) ELSE 0)
         + SumDamage(cs, orgs, target, i + 1)

\* Organism::harm
harm(org) ==
    LET h == IF org.health > 0 THEN org.health - 1 ELSE org.health
    IN [org EXCEPT !.health = h, !.is_alive = IF h = 0 THEN FALSE ELSE @]

RECURSIVE harm_times(_, _)
harm_times(org, n) == IF n = 0 THEN org ELSE harm_times(harm(org), n - 1)

\* iter().position(|org| org.id == id): the first organism with that id, 0 if none.
Position(orgs, id) ==
    IF \E i \in 1..Len(orgs) : orgs[i].id = id
    THEN CHOOSE i \in 1..Len(orgs) :
            orgs[i].id = id /\ \A j \in 1..(i - 1) : orgs[j].id # id
    ELSE 0

\* What the combat phase does to one damaged organism.
damaged(org, damage) ==
    IF insta_kill THEN [org EXCEPT !.is_alive = FALSE] ELSE harm_times(org, damage)

\* Grid::process_killer_cells
process_killer_cells(g) ==
    [g EXCEPT !.organisms = [i \in 1..Len(g.organisms) |->
        LET id == g.organisms[i].id
            damage == SumDamage(g.cells, g.organisms, id, 1)
        IN IF damage > 0 /\ Position(g.organisms, id) = i
           THEN damaged(g.organisms[i], damage)
           ELSE g.organisms[i]]]

ProcessKillerCells ==
    /\ Step("combat", "clear")
    /\ Install(process_killer_cells(G0))
    /\ UNCHANGED <<idx, new_organisms, ret, ops, grown, births, before>>

\* The in-bounds tiles covered by the body of org.
Footprint(org) ==
    {Index(p[1], p[2]) :
        p \in {q \in {get_cell_position(org, org.cells[i]) : i \in 1..Len(org.cells)} :
                  InBounds(q[1], q[2])}}

\* update_organisms without its clearing of the footprints.
clear_footprints_none(g) == g

\* update_organisms, "First clear all organisms from the grid": pixels are not touched.
clear_footprints(g) ==
    [g EXCEPT !.cells = [t \in Tiles |->
        IF \E i \in 1..Len(g.organisms) :
              /\ g.organisms[i].is_alive
              /\ t \in Footprint(g.organisms[i])
              /\ g.cells[t].owner = Some(g.organisms[i].id)
        THEN Cell("Empty", None)
        ELSE g.cells[t]]]

ClearFootprints ==
    /\ Step("clear", "update")
    /\ Install(clear_footprints(G0))
    /\ idx' = 1
    /\ UNCHANGED <<new_organisms, ret, ops, grown, births, before>>

----------------------------------------------------------------------------
(* step(): Organism::update for each organism, then the footprints again. *)

\* Organism::try_move for an organism with a Mover cell.  nd is the direction
\* Direction::random() draws, reroll the outcome of gen_bool(0.5).
try_move(org, cs, nd, reroll) ==
    LET d == to_delta(org.move_direction)
        new_x == Clamp(org.x + d[1], width)
        new_y == Clamp(org.y + d[2], height)
        can_move == \A i \in 1..Len(org.cells) :
            LET r == get_rotated_position(org.cells[i], org.rotation)
                cell_x == Clamp(new_x + r[1], width)
                cell_y == Clamp(new_y + r[2], height)
            IN \/ <<cell_x, cell_y>> = get_cell_position(org, org.cells[i])
               \/ is_position_clear(cs, cell_x, cell_y)
    IN IF can_move
       THEN [moved |-> TRUE,
             org |-> IF org.move_counter + 1 >= org.move_range
                     THEN [org EXCEPT !.x = new_x, !.y = new_y,
                                      !.move_direction = nd, !.move_counter = 0]
                     ELSE [org EXCEPT !.x = new_x, !.y = new_y,
                                      !.move_counter = @ + 1]]
       ELSE [moved |-> FALSE,
             org |-> IF reroll
                     THEN [org EXCEPT !.move_direction = nd, !.move_counter = 0]
                     ELSE org]

\* Organism::try_rotate; new_rotation is the direction Direction::random() draws.
try_rotate(org, cs, new_rotation) ==
    LET can_rotate == \A i \in 1..Len(org.cells) :
            LET r == get_rotated_position(org.cells[i], new_rotation)
                cell_x == Max(org.x + r[1], 0)
                cell_y == Max(org.y + r[2], 0)
            IN \/ <<cell_x, cell_y>> = get_cell_position(org, org.cells[i])
               \/ is_position_clear(cs, cell_x, cell_y)
    IN IF can_rotate
       THEN [rotated |-> TRUE, org |-> [org EXCEPT !.rotation = new_rotation]]
       ELSE [rotated |-> FALSE, org |-> org]

\* Feeding, then try_move and try_rotate one after the other, whatever the
\* move returned.
feed_move_and_rotate(org, cs, nd, reroll, new_rotation) ==
    LET fed == [org EXCEPT !.food_collected = @ + Cardinality(FoodScans(cs, org))]
    IN IF has_movers(fed)
       THEN try_rotate(try_move(fed, cs, nd, reroll).org, cs, new_rotation).org
       ELSE fed

\* The part of Organism::update after the age check: feeding, then move or rotate.
feed_and_move(org, cs, nd, reroll, new_rotation) ==
    LET fed == [org EXCEPT !.food_collected = @ + Cardinality(FoodScans(cs, org))]
    IN IF has_movers(fed)
       THEN LET m == try_move(fed, cs, nd, reroll)
            IN IF m.moved THEN m.org ELSE try_rotate(m.org, cs, new_rotation).org
       ELSE fed

\* Organism::update testing the age after the organism has fed and moved.
update_late_death(org, cs, nd, reroll, new_rotation) ==
    IF ~org.is_alive THEN org
    ELSE LET aged == [org EXCEPT !.lifetime = @ + 1]
             acted == feed_and_move(aged, cs, nd, reroll, new_rotation)
         IN IF aged.lifetime >= max_lifespan(aged, lifespan_multiplier)
            THEN [acted EXCEPT !.is_alive = FALSE]
            ELSE acted

\* update that lets an organism with health left carry on after its death.
update_reviving(org, cs, nd, reroll, new_rotation) ==
    LET risen == [org EXCEPT !.is_alive = @ \/ org.health > 0]
        aged == [risen EXCEPT !.lifetime = @ + 1]
    IN IF ~risen.is_alive THEN org
       ELSE IF aged.lifetime >= max_lifespan(aged, lifespan_multiplier)
            THEN [aged EXCEPT !.is_alive = FALSE]
            ELSE feed_and_move(aged, cs, nd, reroll, new_rotation)

\* Organism::update
update(org, cs, nd, reroll, new_rotation) ==
    IF ~org.is_alive THEN org
    ELSE LET aged == [org EXCEPT !.lifetime = @ + 1]
         IN IF aged.lifetime >= max_lifespan(aged, lifespan_multiplier)
            THEN [aged EXCEPT !.is_alive = FALSE]
            ELSE feed_and_move(aged, cs, nd, reroll, new_rotation)

\* One iteration of the "Update organisms" loop of update_organisms.
UpdateOrganism ==
    /\ Step("update", "update")
    /\ idx <= Len(organisms)
    /\ \E nd \in DirectionDraws, reroll \in BOOLEAN, new_rotation \in DirectionDraws :
          organisms' = [organisms EXCEPT
                          ![idx] = update(@, cells, nd, reroll, new_rotation)]
    /\ idx' = idx + 1
    /\ UNCHANGED <<cells, pixels, next_organism_id, new_organisms, ret, ops, grown, births, before>>

RECURSIVE restamp(_, _)
\* update_organisms, "Re-place all organisms on the grid", organisms i.. in order.
restamp(g, i) ==
    IF i > Len(g.organisms) THEN g
    ELSE restamp(IF g.organisms[i].is_alive THEN stamp(g, g.organisms[i], 1) ELSE g,
                 i + 1)

Restamp ==
    /\ Step("update", "reproduce")
    /\ idx > Len(organisms)
    /\ Install(restamp(G0, 1))
    /\ idx' = 1
    /\ new_organisms' = <<>>
    /\ UNCHANGED <<ret, ops, grown, births, before>>

----------------------------------------------------------------------------
(* step(): reproduction. *)

\* The directions array of try_reproduce.
BirthDirections == {<<0, -1>>, <<1, 0>>, <<0, 1>>, <<-1, 0>>,
                    <<1, -1>>, <<1, 1>>, <<-1, 1>>, <<-1, -1>>}

\* rng.gen_range(0..3)
BirthJitter == 0..2

\* Organism::calculate_birth_distance
calculate_birth_distance(org) ==
    LET extents == {Max(Abs(org.cells[i].x), Abs(org.cells[i].y)) : i \in 1..Len(org.cells)}
    IN (CHOOSE m \in extents \cup {0} : \A e \in extents \cup {0} : m >= e) + 3

RemoveAt(s, i) == SubSeq(s, 1, i - 1) \o SubSeq(s, i + 1, Len(s))

\* The body plans Organism::mutate can leave, over the outcomes of its rolls: the
\* add branch adds nothing, the change and remove branches spare cells[0].
mutate(cs) ==
    LET changed == UNION {{[cs EXCEPT ![i].state = st] :
                              st \in StateDraws \ {cs[i].state}} :
                          i \in 2..Len(cs)}
        kept == {cs} \cup changed
    IN UNION {{c} \cup {RemoveAt(c, i) :
                           i \in {j \in 2..Len(c) : c[j].x # 0 \/ c[j].y # 0}} :
              c \in kept}

\* The draws of gen_range that are explored.
Jitter(range) == {j \in range : Abs(j) <= MaxJitter}

\* What the rolls of Organism::new_from_parent can make of the parent's cells,
\* move_range and mutability: nothing if the mutation roll fails, else mutate()
\* and the two jitters (which may also change nothing).
MutationDraws(parent) ==
    LET same == [cells |-> parent.cells, move_range |-> parent.move_range,
                 mutability |-> parent.mutability]
    IN (IF parent.mutability < 100 THEN {same} ELSE {}) \cup
       (IF parent.mutability > 0
        THEN {[cells |-> c, move_range |-> mr, mutability |-> mu] :
                 c \in mutate(parent.cells),
                 mr \in {parent.move_range} \cup
                        {Max(parent.move_range + j, 1) : j \in Jitter(-2..2)},
                 mu \in {parent.mutability} \cup
                        {Min(Max(parent.mutability + j, 1), 100) : j \in Jitter(-1..1)}}
        ELSE {})

\* Organism::new_from_parent(0, x, y, parent) for the mutation draw m and the
\* move_direction md; try_reproduce then sets the rotation.
new_from_parent(x, y, m, md) ==
    [id |-> 0, x |-> x, y |-> y, rotation |-> "Up", move_direction |-> md,
     cells |-> m.cells, food_collected |-> 0, health |-> 0, lifetime |-> 0,
     mutability |-> m.mutability, move_range |-> m.move_range,
     move_counter |-> 0, is_alive |-> TRUE]

\* The parent giving up all the food it has collected.
paid_all(parent) == [parent EXCEPT !.food_collected = 0]

\* The parent Organism::try_reproduce leaves when it has the food.
paid(parent) ==
    [parent EXCEPT !.food_collected = @ - food_needed_to_reproduce(parent)]

\* The rotation try_reproduce's second branch gives for the birth direction d.
toward(d) ==
    CASE d = <<0, -1>> -> "Up"
      [] d = <<1, 0>> -> "Right"
      [] d = <<0, 1>> -> "Down"
      [] d = <<-1, 0>> -> "Left"
      [] d = <<1, -1>> -> "Up"
      [] d = <<1, 1>> -> "Down"
      [] d = <<-1, 1>> -> "Down"
      [] d = <<-1, -1>> -> "Up"

\* The rotations try_reproduce can give the offspring, one for each branch.
BirthRotations(parent, d) == {parent.rotation, toward(d)} \cup DirectionDraws

\* The offspring Organism::try_reproduce returns for the birth direction d, the
\* jitter j, the mutation draw m, the move_direction md and the rotation r.
try_reproduce(parent, d, j, m, md, r) ==
    LET birth_distance == calculate_birth_distance(parent)
    IN [new_from_parent(Max(parent.x + d[1] * (birth_distance + j), 0),
                        Max(parent.y + d[2] * (birth_distance + j), 0),
                        m, md)
        EXCEPT !.rotation = r]

RECURSIVE sweep(_, _, _, _, _)
\* The while loop of is_straight_path_clear at (x, y) with error term err.
sweep(cs, l, x, y, err) ==
    IF x = l.x2 /\ y = l.y2 THEN TRUE
    ELSE IF /\ (x # l.x1 \/ y # l.y1)
            /\ \/ x < 0 \/ y < 0 \/ x >= width \/ y >= height
               \/ ~is_position_clear(cs, x, y)
         THEN FALSE
         ELSE LET e2 == 2 * err
                  stepx == e2 > -l.dy
                  stepy == e2 < l.dx
              IN sweep(cs, l,
                       IF stepx THEN x + l.sx ELSE x,
                       IF stepy THEN y + l.sy ELSE y,
                       err - (IF stepx THEN l.dy ELSE 0) + (IF stepy THEN l.dx ELSE 0))

\* is_straight_path_clear without its sweep: any two anchors are joined.
is_straight_path_clear_unswept(cs, x1, y1, x2, y2) == TRUE

\* Grid::is_straight_path_clear
is_straight_path_clear(cs, x1, y1, x2, y2) ==
    IF x1 = x2 /\ y1 = y2 THEN TRUE
    ELSE LET l == [x1 |-> x1, y1 |-> y1, x2 |-> x2, y2 |-> y2,
                   dx |-> Abs(x2 - x1), dy |-> Abs(y2 - y1),
                   sx |-> IF x1 < x2 THEN 1 ELSE -1, sy |-> IF y1 < y2 THEN 1 ELSE -1]
         IN sweep(cs, l, l.x1, l.y1, l.dx - l.dy)

\* The positions get_alternative_positions pushes in its dy loop for one dx: the
\* dy that pass the shell test, clamped at 0, those inside the grid kept.
ShellColumn(base_x, base_y, distance, dx) ==
    LET new_x == Max(base_x + dx, 0)
        dys == IF Abs(dx) = distance
               THEN [k \in 1..(2 * distance + 1) |-> k - 1 - distance]
               ELSE <<-distance, distance>>
        inside(dy) == ULt(Max(base_y + dy, 0), height)
        kept == SelectSeq(dys, inside)
    IN IF ULt(new_x, width)
       THEN [k \in 1..Len(kept) |-> <<new_x, Max(base_y + kept[k], 0)>>]
       ELSE <<>>

RECURSIVE Shell(_, _, _, _)
\* The positions get_alternative_positions pushes at one distance, from dx on.
Shell(base_x, base_y, distance, dx) ==
    IF dx > distance THEN <<>>
    ELSE ShellColumn(base_x, base_y, distance, dx)
            \o Shell(base_x, base_y, distance, dx + 1)

RECURSIVE alternative_positions(_, _, _, _)
alternative_positions(base_x, base_y, distance, positions) ==
    IF distance >= 15 THEN positions
    ELSE LET more == positions \o Shell(base_x, base_y, distance, -distance)
         IN IF Len(more) >= 40 THEN more
            ELSE alternative_positions(base_x, base_y, distance + 1, more)

\* Grid::get_alternative_positions
get_alternative_positions(organism) ==
    alternative_positions(organism.x, organism.y, 1, <<>>)

\* The test process_reproduction makes of an offspring before it queues it.
accepts(g, offspring, parent_x, parent_y) ==
    /\ is_position_clear_for_organism(g, offspring)
    /\ is_straight_path_clear(g.cells, parent_x, parent_y, offspring.x, offspring.y)

RECURSIVE first_accepted(_, _, _, _, _, _)
\* The loop of process_reproduction over the alternative positions from index k:
\* the copy at the first position that is accepted, and the break.
first_accepted(g, offspring, parent_x, parent_y, alts, k) ==
    IF k > Len(alts) THEN <<>>
    ELSE LET alt_offspring == [offspring EXCEPT !.x = alts[k][1], !.y = alts[k][2]]
         IN IF accepts(g, alt_offspring, parent_x, parent_y) THEN <<alt_offspring>>
            ELSE first_accepted(g, offspring, parent_x, parent_y, alts, k + 1)

\* process_reproduction queueing nothing, whatever the offspring.
queued_nothing(g, offspring, parent_x, parent_y) == <<>>

\* What process_reproduction queues for one offspring: it, a copy at the first
\* alternative position that is accepted, or nothing.
queued(g, offspring, parent_x, parent_y) ==
    IF accepts(g, offspring, parent_x, parent_y) THEN <<offspring>>
    ELSE first_accepted(g, offspring, parent_x, parent_y,
                        get_alternative_positions(offspring), 1)

\* Whether process_reproduction lets the organism at index i try to reproduce.
may_reproduce(i) ==
    /\ organisms[i].is_alive
    /\ (Len(organisms) + Len(new_organisms) < max_organisms \/ max_organisms = 0)
    /\ organisms[i].food_collected >= food_needed_to_reproduce(organisms[i])

\* What process_reproduction can queue for the parent (already paid) over the
\* draws of try_reproduce.  The placement test reads the offspring's position,
\* cells and rotation only, so it is made once for each of those.
Queues(g, parent) ==
    LET draws == MutationDraws(parent)
        probes == UNION {{[try_reproduce(parent, d, j, m, "Up", r)
                            EXCEPT !.id = g.next_organism_id,
                                   !.move_range = parent.move_range,
                                   !.mutability = parent.mutability] :
                              j \in BirthJitter, m \in draws,
                              r \in BirthRotations(parent, d)} :
                         d \in BirthDirections}
        placed == {queued(g, o, parent.x, parent.y) : o \in probes}
    IN UNION {{[k \in 1..Len(q) |->
                   [q[k] EXCEPT !.move_range = m.move_range,
                                !.mutability = m.mutability,
                                !.move_direction = md]] :
                  m \in {n \in draws : q = <<>> \/ n.cells = q[1].cells},
                  md \in DirectionDraws} :
              q \in placed}

\* One iteration of the candidate loop of process_reproduction.
Reproduce ==
    /\ Step("reproduce", "reproduce")
    /\ idx <= Len(organisms)
    /\ idx' = idx + 1
    /\ IF may_reproduce(idx)
       THEN /\ births < MaxBirths
            /\ births' = births + 1
            /\ organisms' = [organisms EXCEPT ![idx] = paid(@)]
            /\ next_organism_id' = next_organism_id + 1
            /\ \E q \in Queues(G0, paid(organisms[idx])) :
                  new_organisms' = new_organisms \o q
       ELSE UNCHANGED <<organisms, next_organism_id, new_organisms, births>>
    /\ UNCHANGED <<cells, pixels, ret, ops, grown, before>>

RECURSIVE add_all(_, _)
\* process_reproduction, "Add all new organisms one by one".
add_all(g, orgs) ==
    IF orgs = <<>> THEN g ELSE add_all(add_organism(g, orgs[1]).g, Tail(orgs))

PlaceOffspring ==
    /\ Step("reproduce", "cleanup")
    /\ idx > Len(organisms)
    /\ Install(add_all(G0, new_organisms))
    /\ idx' = 0
    /\ new_organisms' = <<>>
    /\ UNCHANGED <<ret, ops, grown, births, before>>

----------------------------------------------------------------------------
(* step(): cleanup, food growth, pixel sync. *)

RECURSIVE to_food(_, _, _)
\* remove_organism, "turn those cells into food", body cells i.. of org.
to_food(g, org, i) ==
    IF i > Len(org.cells) THEN g
    ELSE LET p == get_cell_position(org, org.cells[i])
         IN to_food(set_cell(g, p[1], p[2], "Food", None), org, i + 1)

\* Grid::remove_organism
remove_organism(g, org_id) ==
    LET index == Position(g.organisms, org_id)
    IN IF index = 0 THEN g
       ELSE [to_food(g, g.organisms[index], 1) EXCEPT
               !.organisms = RemoveAt(g.organisms, index)]

RECURSIVE remove_all(_, _)
remove_all(g, ids) ==
    IF ids = <<>> THEN g ELSE remove_all(remove_organism(g, ids[1]), Tail(ids))

IsDead(org) == ~org.is_alive

\* Grid::remove_dead_organisms
remove_dead_organisms(g) ==
    LET dead == SelectSeq(g.organisms, IsDead)
    IN remove_all(g, [k \in 1..Len(dead) |-> dead[k].id])

RemoveDeadOrganisms ==
    /\ Step("cleanup", "grow")
    /\ Install(remove_dead_organisms(G0))
    /\ UNCHANGED <<idx, new_organisms, ret, ops, grown, births, before>>

RECURSIVE SubsetsUpTo(_, _)
\* The subsets of S with at most k elements.
SubsetsUpTo(S, k) ==
    IF k = 0 THEN {{}}
    ELSE LET smaller == SubsetsUpTo(S, k - 1)
         IN smaller \cup {p \cup {e} : p \in smaller, e \in S}

\* The sets of tiles on which a draw random::<f32>() < prob can succeed, prob per
\* mille, when at most k more draws succeed.
Draws(candidates, prob, k) ==
    IF prob <= 0 THEN {{}}
    ELSE IF prob >= 1000 THEN {candidates}
    ELSE SubsetsUpTo(candidates, k)

\* The tiles of the random growth when it does not test their state.
EmptyTiles_untested(cs) == Tiles

\* The tiles the random growth of step() draws for: those that are Empty.
EmptyTiles(cs) == {t \in Tiles : cs[t].state = "Empty"}

\* The Empty tiles next to the Producer cells of the living organisms.
ProducerTargets(cs, orgs) ==
    {Index(n[1], n[2]) :
        n \in {m \in UNION {{Neighbour(orgs[i], orgs[i].cells[s[1]], s[2]) :
                                s \in Scans(orgs[i], "Producer")} :
                            i \in {j \in 1..Len(orgs) : orgs[j].is_alive}} :
                  InBounds(m[1], m[2]) /\ cs[Index(m[1], m[2])].state = "Empty"}}

\* The tile matrix with the tiles of S made Food.
with_food(cs, S) == [t \in Tiles |-> IF t \in S THEN Cell("Food", None) ELSE cs[t]]

\* The rest of step() without its last loop: set_cell colours the new Food
\* tiles and the other pixels stay as they are.
GrowFoodOnly ==
    /\ Step("grow", "idle")
    /\ \E sprouted \in Draws(EmptyTiles(cells), food_production_prob, MaxGrow - grown) :
          LET cs == with_food(cells, sprouted)
              left == Max(MaxGrow - grown - Cardinality(sprouted), 0)
          IN \E produced \in Draws(ProducerTargets(cs, organisms), 100, left) :
                /\ cells' = with_food(cs, produced)
                /\ pixels' = [t \in Tiles |->
                                IF t \in sprouted \cup produced
                                THEN to_color("Food") ELSE pixels[t]]
                /\ grown' = Min(grown + Cardinality(sprouted) + Cardinality(produced),
                                MaxGrow)
    /\ UNCHANGED <<organisms, next_organism_id, idx, new_organisms, ret, ops, births,
                   before>>

\* The rest of step(): random growth, Producer cells, then the pixels.
GrowFood ==
    /\ Step("grow", "idle")
    /\ \E sprouted \in Draws(EmptyTiles(cells), food_production_prob, MaxGrow - grown) :
          LET cs == with_food(cells, sprouted)
              left == Max(MaxGrow - grown - Cardinality(sprouted), 0)
          IN \E produced \in Draws(ProducerTargets(cs, organisms), 100, left) :
                /\ cells' = with_food(cs, produced)
                /\ pixels' = [t \in Tiles |-> to_color(cells'[t].state)]
                /\ grown' = Min(grown + Cardinality(sprouted) + Cardinality(produced),
                                MaxGrow)
    /\ UNCHANGED <<organisms, next_organism_id, idx, new_organisms, ret, ops, births,
                   before>>

----------------------------------------------------------------------------

\* Coordinates handed to the calls: the grid and one column and row beyond it.
Xs == 0..width
Ys == 0..height

\* The callers of set_cell and add_organism work on the first row.
Row == {0}

Next ==
    \/ \E x \in SetXs, y \in Row, state \in SetStates : SetCell(x, y, state)
    \/ \E plan \in Plans, x \in AddXs, y \in Row, md \in DirectionDraws :
          AddOrganism(plan, x, y, md)
    \/ \E x \in Xs, y \in Ys, md \in DirectionDraws : CreateBasicOrganism(x, y, md)
    \/ \E md \in DirectionDraws : OriginOfLife(md)
    \/ \E clear_walls \in BOOLEAN : Reset(clear_walls)
    \/ \E rate \in FoodRateInputs : SetFoodProductionRate(rate)
    \/ \E max \in MaxOrganismsInputs : SetMaxOrganisms(max)
    \/ \E multiplier \in LifespanInputs : SetLifespanMultiplier(multiplier)
    \/ \E b \in InstaKillInputs : SetInstaKill(b)
    \/ \E blocks \in FoodBlocksInputs : SetFoodBlocksReproduction(blocks)
    \/ ProcessEating
    \/ ProcessKillerCells
    \/ ClearFootprints
    \/ UpdateOrganism
    \/ Restamp
    \/ Reproduce
    \/ PlaceOffspring
    \/ RemoveDeadOrganisms
    \/ GrowFood

Spec == Init /\ [][Next]_vars

----------------------------------------------------------------------------
(* The scenarios: a large grid whose driver has assigned the tunables, as      *)
(* main.rs does, and seeds it by hand with organisms it may have given food.  *)

\* Body plans and anchors of the seeds: a lone Mouth or a Mouth with a Killer to
\* its right, at the centre of the grid or two tiles to the right of it.
SeedPlans == {<<>>, << <<"Killer", 1, 0>> >>}
SeedAnchors == {<<LargeSide \div 2, LargeSide \div 2>>,
                <<LargeSide \div 2 + 2, LargeSide \div 2>>}

\* Grid::new(LargeSide, LargeSide), then the driver's assignments: random growth
\* off, either kill rule, either lifespan.
InitLarge ==
    /\ width = LargeSide /\ height = LargeSide
    /\ cells = [i \in Tiles |-> Cell("Empty", None)]
    /\ pixels = [i \in Tiles |-> 0]
    /\ organisms = <<>>
    /\ next_organism_id = 0
    /\ food_production_prob = 0
    /\ max_organisms = 1000
    /\ lifespan_multiplier \in InitLifespans
    /\ insta_kill \in BOOLEAN
    /\ food_blocks_reproduction = TRUE
    /\ pc = "idle"
    /\ idx = 0
    /\ new_organisms = <<>>
    /\ ret = [op |-> "new", value |-> TRUE]
    /\ ops = 0
    /\ grown = 0
    /\ births = 0
    /\ before = NoStep
    /\ loop = NoLoop

\* Grid::add_organism on an organism built by Organism::new(0, x, y) and add_cell
\* whose food_collected the caller has set to food_needed_to_reproduce, if fed.
AddFedOrganism(plan, x, y, md, fed) ==
    LET built == add_cells(OrganismNew(0, x, y, md), plan)
        organism == IF fed
                    THEN [built EXCEPT !.food_collected = food_needed_to_reproduce(built)]
                    ELSE built
        r == add_organism(G0, organism)
    IN /\ Called("add_organism", r.ok)
       /\ Install(r.g)
       /\ UNCHANGED config

NextLarge ==
    \/ \E plan \in SeedPlans, a \in SeedAnchors, md \in DirectionDraws, fed \in BOOLEAN :
          AddFedOrganism(plan, a[1], a[2], md, fed)
    \/ \E md \in DirectionDraws : CreateBasicOrganism(1, 1, md)
    \/ ProcessEating
    \/ ProcessKillerCells
    \/ ClearFootprints
    \/ UpdateOrganism
    \/ Restamp
    \/ Reproduce
    \/ PlaceOffspring
    \/ RemoveDeadOrganisms
    \/ GrowFood

SpecLarge == InitLarge /\ [][NextLarge]_vars

----------------------------------------------------------------------------
(* The garden: a square grid with random growth as Grid::new leaves it or     *)
(* switched off, seeded with walls, food and organisms that have a Producer   *)
(* or a Mover cell beside their Mouth.                                         *)

\* Body plans of the garden: a Producer to the right of the Mouth or below it,
\* or a Mover below it.
GardenPlans == {<< <<"Producer", 1, 0>> >>, << <<"Producer", 0, 1>> >>,
                << <<"Mover", 0, 1>> >>}

\* Anchors of the garden's organisms and columns of the tiles painted.
GardenXs == {0, 1}

\* The rate the garden's driver gives set_food_production_rate: none.
GardenRates == {0}

\* Grid::new(MaxH, MaxH)
InitGarden ==
    /\ width = MaxH /\ height = MaxH
    /\ cells = [i \in Tiles |-> Cell("Empty", None)]
    /\ pixels = [i \in Tiles |-> 0]
    /\ organisms = <<>>
    /\ next_organism_id = 0
    /\ food_production_prob = 5
    /\ max_organisms = 1000
    /\ lifespan_multiplier \in InitLifespans
    /\ insta_kill = FALSE
    /\ food_blocks_reproduction = TRUE
    /\ pc = "idle"
    /\ idx = 0
    /\ new_organisms = <<>>
    /\ ret = [op |-> "new", value |-> TRUE]
    /\ ops = 0
    /\ grown = 0
    /\ births = 0
    /\ before = NoStep
    /\ loop = NoLoop

NextGarden ==
    \/ \E x \in GardenXs, y \in Row, state \in SetStates : SetCell(x, y, state)
    \/ \E plan \in GardenPlans, x \in GardenXs, y \in Row, md \in DirectionDraws :
          AddOrganism(plan, x, y, md)
    \/ \E rate \in GardenRates : SetFoodProductionRate(rate)
    \/ ProcessEating
    \/ ProcessKillerCells
    \/ ClearFootprints
    \/ UpdateOrganism
    \/ Restamp
    \/ Reproduce
    \/ PlaceOffspring
    \/ RemoveDeadOrganisms
    \/ GrowFood

SpecGarden == InitGarden /\ [][NextGarden]_vars

----------------------------------------------------------------------------
(* Properties. *)

\* The transition is the call op returning.
Returned(op) == ops' = ops + 1 /\ ret'.op = op

\* A step() has just returned.
AfterStep == pc = "idle" /\ ret.op = "step"

\* C1, placement atomicity: a call of add_organism that returns false leaves
\* the state and owner of every tile and the organism registry as they were.
PlacementAtomicity ==
    [][Returned("add_organism") /\ ~ret'.value
          => cells' = cells /\ organisms' = organisms]_vars

\* A refused add_organism on a grid that holds an organism and Food.
PlacementRefused ==
    /\ ret = [op |-> "add_organism", value |-> FALSE]
    /\ organisms # <<>>
    /\ \E t \in Tiles : cells[t].state = "Food"

\* C2, population cap: add_organism, create_basic_organism and step() keep the
\* registry within max_organisms, when max_organisms > 0 and they start within it.
PopulationCap ==
    [][/\ max_organisms' = max_organisms
       /\ max_organisms > 0
       /\ Len(organisms) <= max_organisms
       => Len(organisms') <= max_organisms]_vars

\* A step() has returned with the registry at the cap, a parent having had the
\* food for an offspring it was not allowed.
CapReached ==
    /\ AfterStep
    /\ max_organisms > 0
    /\ Len(organisms) = max_organisms
    /\ \E i \in 1..Len(organisms) :
          /\ organisms[i].is_alive
          /\ organisms[i].food_collected >= food_needed_to_reproduce(organisms[i])

\* C5, id uniqueness: no two organisms of the registry have the same id.
IdUniqueness ==
    \A i, j \in 1..Len(organisms) : organisms[i].id = organisms[j].id => i = j

\* C6, placement validation: add_organism returns true only if every body cell
\* is inside the grid and on a tile that is Empty, or Food while
\* food_blocks_reproduction is false.
PlacementValidation ==
    [][Returned("add_organism") /\ ret'.value
          => LET org == organisms'[Len(organisms')]
             IN \A i \in 1..Len(org.cells) :
                   LET p == get_cell_position(org, org.cells[i])
                   IN /\ InBounds(p[1], p[2])
                      /\ \/ cells[Index(p[1], p[2])].state = "Empty"
                         \/ /\ cells[Index(p[1], p[2])].state = "Food"
                            /\ ~food_blocks_reproduction]_vars

\* C3, health bound: every organism of the registry that is alive, seeded or
\* born, has 0 < health <= len(cells).
HealthBound ==
    \A i \in 1..Len(organisms) :
        organisms[i].is_alive
            => 0 < organisms[i].health /\ organisms[i].health <= Len(organisms[i].cells)

\* C4, owner validity: after every step(), the owner of a tile is the id of an
\* organism of the registry that is alive and has a body cell on that tile.
OwnerValidity ==
    AfterStep =>
        \A t \in Tiles :
            cells[t].owner # None =>
                \E i \in 1..Len(organisms) :
                    /\ cells[t].owner = Some(organisms[i].id)
                    /\ organisms[i].is_alive
                    /\ t \in Footprint(organisms[i])

\* A step() has returned in which an organism with a Mover cell has moved from
\* column 0 to column 1, where its anchor tile names it.
OwnerMoved ==
    /\ AfterStep
    /\ \E i \in 1..Len(organisms) :
          /\ organisms[i].is_alive /\ has_movers(organisms[i])
          /\ organisms[i].x = 1 /\ organisms[i].y = 0
          /\ organisms[i].move_counter = 1
          /\ cells[Index(1, 0)].owner = Some(organisms[i].id)

\* C7, placement success: when add_organism returns true, for a call or for an
\* offspring, the registry has grown by that organism, each tile of its body
\* holds the state of the body cell there with the organism as owner, and the
\* other tiles are unchanged.
PlacementSuccess ==
    [][Len(organisms') = Len(organisms) + 1
          => LET org == organisms'[Len(organisms')]
             IN /\ SubSeq(organisms', 1, Len(organisms)) = organisms
                /\ \A i \in 1..Len(org.cells) :
                      LET p == get_cell_position(org, org.cells[i])
                      IN InBounds(p[1], p[2])
                            => cells'[Index(p[1], p[2])]
                                  = Cell(org.cells[i].state, Some(org.id))
                /\ \A t \in Tiles \ Footprint(org) : cells'[t] = cells[t]]_vars

\* C8, cleanup: the cleanup of step() leaves no organism with is_alive == false
\* in the registry, and every tile under the body of an organism that was dead
\* is Food with no owner.
Cleanup ==
    [][pc = "cleanup" /\ pc' = "grow"
          => /\ \A i \in 1..Len(organisms') : organisms'[i].is_alive
             /\ \A i \in 1..Len(organisms) :
                   ~organisms[i].is_alive
                      => \A t \in Footprint(organisms[i]) :
                            cells'[t] = Cell("Food", None)]_vars

\* The transition is the update of organisms[idx], alive and at its age limit
\* once lifetime is incremented.
UpdatesAged ==
    /\ pc = "update" /\ idx' = idx + 1 /\ idx <= Len(organisms)
    /\ organisms[idx].is_alive
    /\ organisms[idx].lifetime + 1 >= Len(organisms[idx].cells) * lifespan_multiplier

\* C9, age-death: an alive organism whose incremented lifetime is at least
\* len(cells) * lifespan_multiplier is dead right after its update, which has
\* changed nothing else of it: no food collected, no move, no rotation.
AgeDeath ==
    [][UpdatesAged
          => organisms'[idx] = [organisms[idx] EXCEPT !.lifetime = @ + 1,
                                                      !.is_alive = FALSE]]_vars

\* An organism with a Mover cell has just died of age in its update.
DiedOfAge ==
    /\ pc = "update" /\ idx > 1
    /\ ~organisms[idx - 1].is_alive
    /\ has_movers(organisms[idx - 1])
    /\ organisms[idx - 1].lifetime
          = Len(organisms[idx - 1].cells) * lifespan_multiplier

\* C10, reset: reset(true) empties the registry and makes every tile Empty with
\* no owner; reset(false) empties the registry, leaves every Wall a Wall and
\* makes every other tile Empty with no owner; both set next_organism_id to 0.
ResetClears ==
    [][Returned("reset")
          => /\ organisms' = <<>>
             /\ next_organism_id' = 0
             /\ \A t \in Tiles :
                   IF ~ret'.value /\ cells[t].state = "Wall"
                   THEN cells'[t].state = "Wall"
                   ELSE cells'[t] = Cell("Empty", None)]_vars

\* reset(false) has returned on a grid with a Wall, after a step().
ResetKeptWalls ==
    /\ ret = [op |-> "reset", value |-> FALSE]
    /\ \E t \in Tiles : cells[t].state = "Wall"
    /\ ops = MaxOps

\* C11, failed reproduction is free: a parent whose reproduction attempt queues
\* no offspring keeps its food_collected.
FailedReproductionFree ==
    [][pc = "reproduce" /\ idx' = idx + 1 /\ new_organisms' = new_organisms
          => organisms'[idx].food_collected = organisms[idx].food_collected]_vars

\* The last step() began on a grid that held nothing but one organism, which had
\* exactly the food to reproduce.
LoneFedParent ==
    /\ AfterStep
    /\ Len(before.organisms) = 1
    /\ before.organisms[1].food_collected
          = food_needed_to_reproduce(before.organisms[1])
    /\ \A t \in Tiles :
          before.cells[t].state \in EnvStates => before.cells[t].state = "Empty"

\* C12 as stated, Scenario B (count): one step() on a large grid that holds only
\* one organism, with food_collected == food_needed_to_reproduce, leaves exactly
\* two organisms, the parent and one offspring.
ScenarioBCount ==
    LoneFedParent
        => /\ Len(organisms) = 2
           /\ organisms[1].id = before.organisms[1].id
           /\ organisms[2].lifetime = 0

\* C12 amended: the same, for a parent that the step does not age to its
\* max_lifespan and a max_organisms that leaves room for the offspring.
ScenarioBCountInTime ==
    /\ LoneFedParent
    /\ before.organisms[1].lifetime + 1
          < max_lifespan(before.organisms[1], lifespan_multiplier)
    /\ (max_organisms = 0 \/ max_organisms > 1)
    => /\ Len(organisms) = 2
       /\ organisms[1].id = before.organisms[1].id
       /\ organisms[2].lifetime = 0

\* A lone fed parent has an offspring placed at its birth distance, to its left.
OffspringAtBirthDistance ==
    /\ LoneFedParent
    /\ Len(organisms) = 2
    /\ organisms[2].y = organisms[1].y
    /\ organisms[2].x = organisms[1].x - calculate_birth_distance(organisms[1])

\* The offspring is at least the parent's birth distance from the parent along
\* each axis of the birth direction d.
AtBirthDistance(parent, offspring, d) ==
    /\ d[1] # 0 => Abs(offspring.x - parent.x) >= calculate_birth_distance(parent)
    /\ d[2] # 0 => Abs(offspring.y - parent.y) >= calculate_birth_distance(parent)

\* C13, Scenario B (distance): every offspring that reproduction places is, for
\* some parent and birth direction, at least the parent's birth distance from
\* the parent's anchor along each axis of that direction.
ScenarioBDistance ==
    [][pc = "reproduce" /\ pc' = "cleanup"
          => \A j \in (Len(organisms) + 1)..Len(organisms') :
                \E i \in 1..Len(organisms), d \in BirthDirections :
                    /\ organisms[i].is_alive
                    /\ AtBirthDistance(organisms[i], organisms'[j], d)]_vars

\* The tiles of the cells of org that satisfy the test, as coordinates.
CellsAt(org, test(_)) ==
    {get_cell_position(org, org.cells[i]) :
        i \in {j \in 1..Len(org.cells) : test(org.cells[j])}}

IsKiller(cell) == cell.state = "Killer"
NotArmor(cell) == cell.state # "Armor"

\* When the last step() began, the organism at index v of the registry had a
\* non-Armor cell 4-adjacent to a Killer cell of another living organism.
UnderAttack(v) ==
    \E k \in 1..Len(before.organisms) :
        /\ k # v
        /\ before.organisms[k].is_alive
        /\ \E p \in CellsAt(before.organisms[k], IsKiller),
              q \in CellsAt(before.organisms[v], NotArmor) :
              /\ InBounds(p[1], p[2]) /\ InBounds(q[1], q[2])
              /\ Abs(p[1] - q[1]) + Abs(p[2] - q[2]) = 1

\* C14, Scenario C: with insta_kill == true, an organism that has a non-Armor
\* cell 4-adjacent to a Killer cell of a different alive organism when step()
\* begins is absent from the registry after that step.
ScenarioC ==
    AfterStep /\ insta_kill
        => \A v \in 1..Len(before.organisms) :
              UnderAttack(v)
                 => ~\E i \in 1..Len(organisms) :
                        /\ organisms[i].id = before.organisms[v].id
                        /\ organisms[i].cells = before.organisms[v].cells
                        /\ organisms[i].x = before.organisms[v].x
                        /\ organisms[i].y = before.organisms[v].y

IsMouth(cell) == cell.state = "Mouth"

\* A Mouth cell of org lies on a tile 4-adjacent to the tile with index t.
MouthBeside(org, t) ==
    \E q \in CellsAt(org, IsMouth), a \in Adjacents :
        /\ InBounds(q[1], q[2])
        /\ InBounds(q[1] + a[1], q[2] + a[2])
        /\ Index(q[1] + a[1], q[2] + a[2]) = t

\* When the last step() began, tile t was Food and 4-adjacent to Mouth cells
\* of the two different living organisms at indices a and b.
SharedFood(t, a, b) ==
    /\ a # b
    /\ before.organisms[a].is_alive /\ before.organisms[b].is_alive
    /\ before.cells[t].state = "Food"
    /\ MouthBeside(before.organisms[a], t)
    /\ MouthBeside(before.organisms[b], t)

\* Every organism of the registry at the start of the last step() is still at
\* its index, one tick older: the step removed nobody.
AllSurvived ==
    \A i \in 1..Len(before.organisms) :
        /\ i <= Len(organisms)
        /\ organisms[i].id = before.organisms[i].id
        /\ organisms[i].lifetime = before.organisms[i].lifetime + 1

Gained(i) == organisms[i].food_collected - before.organisms[i].food_collected

\* C15 as stated, Scenario D: when one Food tile is 4-adjacent to Mouth cells
\* of two different alive organisms at the start of step(), the eating phase
\* clears the tile to Empty and after the step (nobody having been removed)
\* the food_collected of both organisms has increased by exactly 1.
ScenarioD ==
    \A a, b \in 1..Len(before.organisms) : \A t \in Tiles :
        SharedFood(t, a, b) =>
            /\ pc = "combat" => cells[t].state = "Empty"
            /\ AfterStep /\ AllSurvived => Gained(a) = 1 /\ Gained(b) = 1

\* org has a single Mouth cell and t is the only Food tile of the grid when the
\* step begins.
OneMouthOneFood(org, t) ==
    /\ Cardinality({i \in 1..Len(org.cells) : IsMouth(org.cells[i])}) = 1
    /\ \A u \in Tiles : before.cells[u].state = "Food" => u = t

\* C15 amended: at the end of the eating phase of that step the tile is Empty
\* and the food_collected of both organisms has increased by at least 1, by
\* exactly 1 for an organism with a single Mouth cell when the tile is the
\* only Food of the grid; the later phases of the step may spend it again.
ScenarioDEating ==
    pc = "combat" =>
        \A a, b \in 1..Len(before.organisms) : \A t \in Tiles :
            SharedFood(t, a, b) =>
                /\ cells[t].state = "Empty"
                /\ Gained(a) >= 1 /\ Gained(b) >= 1
                /\ OneMouthOneFood(before.organisms[a], t) => Gained(a) = 1
                /\ OneMouthOneFood(before.organisms[b], t) => Gained(b) = 1

\* Two organisms with one Mouth cell each have just eaten the same tile.
SharedTileEaten ==
    /\ pc = "combat"
    /\ \E a, b \in 1..Len(before.organisms) : \E t \in Tiles :
          /\ SharedFood(t, a, b)
          /\ OneMouthOneFood(before.organisms[a], t)
          /\ OneMouthOneFood(before.organisms[b], t)
          /\ Gained(a) = 1 /\ Gained(b) = 1

\* The grid is 1x1, lifespan_multiplier is 1 and the organism at index v of
\* the registry was alive with a single cell when the last step() began.
LoneCell(v) ==
    /\ width = 1 /\ height = 1
    /\ lifespan_multiplier = 1
    /\ before.organisms[v].is_alive
    /\ Len(before.organisms[v].cells) = 1
    /\ before.organisms[v].x = 0 /\ before.organisms[v].y = 0

\* C16, Scenario A: on a 1x1 grid with lifespan_multiplier = 1 a single-celled
\* organism placed at (0,0) is dead once the update phase of the next step()
\* is over and is gone from the registry when that step() returns.
ScenarioA ==
    \A v \in 1..Len(before.organisms) :
        LoneCell(v) =>
            /\ pc = "reproduce" => ~organisms[v].is_alive
            /\ AfterStep => \A i \in 1..Len(organisms) :
                               \/ organisms[i].id # before.organisms[v].id
                               \/ organisms[i].cells # before.organisms[v].cells

\* The single-celled organism of the 1x1 grid has been removed by one step().
LoneCellRemoved ==
    /\ AfterStep
    /\ Len(before.organisms) = 1
    /\ LoneCell(1)
    /\ before.organisms[1].lifetime = 0
    /\ organisms = <<>>

\* C17, pixel sync: after every step(), get_pixel(x, y) is the colour of the
\* state of the tile at (x, y), for every in-bounds (x, y).
PixelSync ==
    AfterStep =>
        \A x \in 0..(width - 1), y \in 0..(height - 1) :
            get_pixel(x, y) = to_color(cells[Index(x, y)].state)

\* A step() in which a living organism left a tile, which is Empty and
\* coloured Empty afterwards.
VacatedTileSynced ==
    /\ AfterStep
    /\ \E t \in Tiles, i \in 1..Len(organisms) :
          /\ organisms[i].is_alive
          /\ before.cells[t].owner = {organisms[i].id}
          /\ cells[t].state = "Empty"
          /\ pixels[t] = to_color("Empty")

\* Coordinates with x >= width or y >= height: the first column and row beyond
\* the grid, the next ones, and the largest u32 (-1 as a bit pattern).
OutProbes ==
    {p \in {0, width, width + 1, -1} \X {0, height, height + 1, -1} :
        ~InBounds(p[1], p[2])}

\* C18, out-of-bounds queries are safe: for x >= width or y >= height,
\* get_cell is None, is_position_clear and has_food_at are false, get_pixel is
\* 0 and set_cell changes nothing.
OutOfBoundsSafe ==
    \A p \in OutProbes :
        /\ get_cell(cells, p[1], p[2]) = {}
        /\ ~is_position_clear(cells, p[1], p[2])
        /\ ~has_food_at(cells, p[1], p[2])
        /\ get_pixel(p[1], p[2]) = 0
        /\ \A state \in CellState : set_cell(G0, p[1], p[2], state, None) = G0

\* On the 1x1 grid every column that set_cell is called with lies beyond the
\* grid: a set_cell has returned and the only tile and its pixel are as new.
OutOfBoundsProbed ==
    /\ ret.op = "set_cell"
    /\ width = 1 /\ height = 1
    /\ cells[0] = Cell("Empty", None)
    /\ pixels[0] = 0
    /\ get_cell(cells, 0, 0) = {cells[0]}
    /\ get_cell(cells, 1, 0) = {}

\* C19, dead is terminal: nothing sets is_alive back to true.  Cleanup and
\* reset only drop organisms, so every living organism they leave was living
\* before with the same record; every other step leaves a dead organism dead
\* at its index of the registry.
DeadIsTerminal ==
    [][IF pc = "cleanup" \/ ret'.op = "reset"
       THEN \A j \in 1..Len(organisms') :
               organisms'[j].is_alive
                  => \E i \in 1..Len(organisms) : organisms[i] = organisms'[j]
       ELSE \A i \in 1..Len(organisms) :
               ~organisms[i].is_alive
                  => i <= Len(organisms') /\ ~organisms'[i].is_alive]_vars

\* The update phase of a step() is over and an organism killed in its combat
\* phase is still in the registry, dead and not aged.
DeadThroughUpdate ==
    /\ pc = "reproduce"
    /\ \E i \in 1..Len(organisms) :
          /\ ~organisms[i].is_alive
          /\ before.organisms[i].is_alive
          /\ organisms[i].lifetime = before.organisms[i].lifetime

\* The phases of a step() that has begun.
StepGoesOn ==
    \/ ProcessKillerCells \/ ClearFootprints \/ UpdateOrganism \/ Restamp
    \/ Reproduce \/ PlaceOffspring \/ RemoveDeadOrganisms \/ GrowFood

\* C20, zero-area grid: when width == 0 or height == 0, add_organism and
\* create_basic_organism return false, the registry stays empty, there is no
\* tile to touch, and a step() that has begun can always go on to its end.
ZeroAreaGrid ==
    width = 0 \/ height = 0 =>
        /\ organisms = <<>>
        /\ ret.op \in {"add_organism", "create_basic_organism"} => ~ret.value
        /\ DOMAIN cells = {} /\ DOMAIN pixels = {}
        /\ pc # "idle" => ENABLED StepGoesOn

\* A step() has returned on a grid of height 0 on which an add_organism was
\* refused before (the refused call used up an id).
ZeroAreaStepped ==
    /\ AfterStep
    /\ width = 1 /\ height = 0
    /\ organisms = <<>>
    /\ next_organism_id > 0

RECURSIVE Rasterized(_, _, _, _, _)
\* The tiles of the rasterized line from (x, y), error term err, up to but
\* without the end l.to, for the steps l.sx, l.sy and the spans l.dx, l.dy.
Rasterized(l, x, y, err, n) ==
    IF <<x, y>> = l.to \/ n = 0 THEN {}
    ELSE {<<x, y>>} \cup
         Rasterized(l,
                    IF 2 * err > -l.dy THEN x + l.sx ELSE x,
                    IF 2 * err < l.dx THEN y + l.sy ELSE y,
                    err - (IF 2 * err > -l.dy THEN l.dy ELSE 0)
                        + (IF 2 * err < l.dx THEN l.dx ELSE 0),
                    n - 1)

\* The tiles strictly between the anchors a and b on the rasterized line.
Between(a, b) ==
    LET l == [to |-> b, dx |-> Abs(b[1] - a[1]), dy |-> Abs(b[2] - a[2]),
              sx |-> IF a[1] < b[1] THEN 1 ELSE -1,
              sy |-> IF a[2] < b[2] THEN 1 ELSE -1]
    IN Rasterized(l, a[1], a[2], l.dx - l.dy, l.dx + l.dy + 1) \ {a}

\* The tile at p is inside the grid and Empty or Food in cs.
ClearTile(cs, p) ==
    /\ 0 <= p[1] /\ p[1] < width /\ 0 <= p[2] /\ p[2] < height
    /\ cs[Index(p[1], p[2])].state \in {"Empty", "Food"}

AnyCell(cell) == TRUE

PaidFor ==
    LET parent == organisms[idx]
        cost == Len(parent.cells)
                  + (IF \E c \in 1..Len(parent.cells) : parent.cells[c].state = "Mover"
                     THEN 1 ELSE 0)
        offspring == new_organisms'[Len(new_organisms')]
    IN /\ parent.is_alive
       /\ parent.food_collected >= cost
       /\ organisms'[idx].food_collected = parent.food_collected - cost
       /\ offspring.food_collected = 0
       /\ offspring.lifetime = 0

\* One turn of the reproduction phase: at most one offspring is queued, the
\* other organisms are left alone, and a queued offspring was paid for.
OneTurn ==
    /\ Len(new_organisms') <= Len(new_organisms) + 1
    /\ \A k \in 1..Len(organisms) : k # idx => organisms'[k] = organisms[k]
    /\ (Len(new_organisms') = Len(new_organisms) + 1 => PaidFor)

\* The offspring that the end of the reproduction phase adds are new-born.
AddedNewBorn ==
    \A j \in (Len(organisms) + 1)..Len(organisms') :
        organisms'[j].food_collected = 0 /\ organisms'[j].lifetime = 0

\* C22, reproduction eligibility and cost: the turn of one organism in the
\* reproduction phase of a step queues at most one offspring, and only for a
\* living organism whose food_collected has reached food_needed_to_reproduce
\* (its number of cells, plus 1 with a Mover cell); the parent's food_collected
\* then drops by exactly that cost, and the offspring has food_collected == 0
\* and lifetime == 0, as it still has when the step has added it.
ReproductionCost ==
    [][/\ (pc = "reproduce" /\ idx' = idx + 1 => OneTurn)
       /\ (pc = "reproduce" /\ pc' = "cleanup" => AddedNewBorn)]_vars

\* A parent that had collected more than the cost has queued an offspring and
\* keeps the rest.
ParentKeptChange ==
    /\ pc = "reproduce"
    /\ idx = 2
    /\ Len(new_organisms) = 1
    /\ organisms[1].food_collected > 0
    /\ new_organisms[1].food_collected = 0

\* The damage points due to the organism at index v: the (Killer cell of
\* another living organism, 4-adjacent tile) pairs whose tile is inside the
\* grid, under the body of v, owned by the id of v and not Armor.
DamageDue(v) ==
    Cardinality(
        {h \in UNION {{k} \X (1..Len(organisms[k].cells)) \X Adjacents :
                         k \in 1..Len(organisms)} :
            /\ h[1] # v
            /\ organisms[h[1]].is_alive
            /\ organisms[h[1]].cells[h[2]].state = "Killer"
            /\ LET q == get_cell_position(organisms[h[1]], organisms[h[1]].cells[h[2]])
                   p == <<q[1] + h[3][1], q[2] + h[3][2]>>
               IN /\ 0 <= p[1] /\ p[1] < width /\ 0 <= p[2] /\ p[2] < height
                  /\ cells[Index(p[1], p[2])].owner = Some(organisms[v].id)
                  /\ p \in CellsAt(organisms[v], AnyCell)
                  /\ cells[Index(p[1], p[2])].state # "Armor"})

\* What the combat phase owes the organism at index v.
DamageDealt(v) ==
    LET d == DamageDue(v)
        left == Max(organisms[v].health - d, 0)
    IN IF d = 0 THEN organisms'[v] = organisms[v]
       ELSE IF insta_kill
            THEN organisms'[v] = [organisms[v] EXCEPT !.is_alive = FALSE]
            ELSE organisms'[v] = [organisms[v] EXCEPT
                                    !.health = left,
                                    !.is_alive = IF left = 0 THEN FALSE ELSE @]

\* C23, combat damage: in the combat phase an organism receives one damage
\* point per (alive other organism's Killer cell, 4-adjacent non-Armor tile it
\* owns) pair and none otherwise; with insta_kill == false a target with
\* health h and d damage points ends with health max(h - d, 0) and is dead
\* when that is 0, with insta_kill == true any damage kills it.
CombatDamage ==
    [][pc = "combat" /\ pc' # "combat"
          => \A v \in 1..Len(organisms) : DamageDealt(v)]_vars

\* Every body cell of org lies on a tile of the grid that is clear in cs or
\* under the body of the organism `was`.
StandsFreely(org, was, cs) ==
    \A p \in CellsAt(org, AnyCell) :
        /\ InBounds(p[1], p[2])
        /\ p \in CellsAt(was, AnyCell) \/ is_position_clear(cs, p[1], p[2])

\* C24, move and rotate feasibility: an update moves or rotates an organism
\* only if every body cell's rotated and translated destination is an
\* in-bounds tile that the organism occupied or that is clear, so that after a
\* successful move or rotation no body cell lies outside the grid.
MoveFeasibility ==
    [][pc = "update" /\ idx' = idx + 1
          /\ (organisms'[idx].x # organisms[idx].x
                \/ organisms'[idx].y # organisms[idx].y
                \/ organisms'[idx].rotation # organisms[idx].rotation)
          => StandsFreely(organisms'[idx], organisms[idx], cells)]_vars

\* The update of the organism whose turn it is was a successful try_move: the
\* organism has a Mover cell and either its anchor changed or, move_direction
\* being kept only by a successful move that does not end a range, its
\* move_counter went up.
MoveSucceeded ==
    /\ pc = "update" /\ idx' = idx + 1
    /\ organisms[idx].is_alive /\ organisms'[idx].is_alive
    /\ \/ organisms'[idx].x # organisms[idx].x
       \/ organisms'[idx].y # organisms[idx].y
       \/ organisms'[idx].move_counter = organisms[idx].move_counter + 1

\* C25, move commit: a successful try_move changes the anchor by exactly one
\* tile in move_direction and increments move_counter, resetting it to 0 (and
\* resampling move_direction) once it reaches move_range; a failed try_move
\* leaves the anchor and, unless try_rotate then succeeds, the rotation alone.
MoveCommit ==
    [][MoveSucceeded
          => LET d == to_delta(organisms[idx].move_direction)
             IN /\ organisms'[idx].x = organisms[idx].x + d[1]
                /\ organisms'[idx].y = organisms[idx].y + d[2]
                /\ organisms'[idx].rotation = organisms[idx].rotation
                /\ organisms'[idx].move_counter =
                      IF organisms[idx].move_counter + 1 >= organisms[idx].move_range
                      THEN 0 ELSE organisms[idx].move_counter + 1]_vars

\* C26, move before rotate: an update never changes both the anchor and the
\* rotation of an organism, changes the rotation only of an organism with a
\* Mover cell whose try_move has failed (anchor and move_counter not advanced),
\* and changes neither anchor nor rotation of an organism without a Mover cell.
MoveBeforeRotate ==
    [][pc = "update" /\ idx' = idx + 1
          => LET old == organisms[idx]
                 new == organisms'[idx]
                 shifted == new.x # old.x \/ new.y # old.y
                 turned == new.rotation # old.rotation
                 mover == \E c \in 1..Len(old.cells) : old.cells[c].state = "Mover"
             IN /\ ~(shifted /\ turned)
                /\ turned => mover /\ ~try_move(old, cells, "Up", FALSE).moved
                /\ ~mover => ~shifted /\ ~turned
                /\ \A k \in 1..Len(organisms) : k # idx => organisms'[k] = organisms[k]]_vars

\* The update phase is over and an organism with a Mover cell that could not
\* move has turned where it stood.
TurnedInPlace ==
    /\ pc = "reproduce"
    /\ \E i \in 1..Len(before.organisms) :
          /\ organisms[i].rotation # before.organisms[i].rotation
          /\ organisms[i].x = before.organisms[i].x
          /\ organisms[i].y = before.organisms[i].y
          /\ organisms[i].lifetime = before.organisms[i].lifetime + 1

AtOrigin(cell) == cell.x = 0 /\ cell.y = 0

\* The offspring queued by the current turn of the reproduction phase has the
\* cells of the parent at offset (0,0), in their states.
OriginKept ==
    LET parent == organisms[idx]
        offspring == new_organisms'[Len(new_organisms')]
    IN /\ Len(offspring.cells) >= 1
       /\ SelectSeq(offspring.cells, AtOrigin) = SelectSeq(parent.cells, AtOrigin)

\* C27, anchor protection: whatever the random rolls, the body that mutate()
\* leaves an offspring has the parent's cell at relative offset (0,0), with
\* its state unchanged, and has at least one cell.
AnchorProtection ==
    [][pc = "reproduce" /\ idx' = idx + 1
          /\ Len(new_organisms') = Len(new_organisms) + 1
          => OriginKept]_vars

\* The body plan c is the body plan cs with one cell more: a cell in a body
\* state, at an offset that no other cell has and that is orthogonally
\* adjacent to another cell.
GrownByOne(cs, c) ==
    \E k \in 1..Len(c) :
        /\ RemoveAt(c, k) = cs
        /\ c[k].state \in BodyStates
        /\ \A j \in 1..Len(c) : j # k => <<c[j].x, c[j].y>> # <<c[k].x, c[k].y>>
        /\ \E j \in 1..Len(c) :
              j # k /\ Abs(c[j].x - c[k].x) + Abs(c[j].y - c[k].y) = 1

\* C28, mutation can grow the body: for every organism of the registry there
\* is an outcome of mutate() with exactly one more cell than before, the new
\* cell orthogonally adjacent to an existing cell, at a free relative offset
\* and in one of the states Mouth, Producer, Mover, Killer, Armor, Eye.
MutationCanGrow ==
    \A i \in 1..Len(organisms) :
        \E c \in mutate(organisms[i].cells) : GrownByOne(organisms[i].cells, c)

\* The food the eating phase owes the organism at index i: one unit per
\* (Mouth cell, 4-adjacent tile) pair whose tile is inside the grid and Food.
FoodDue(i) ==
    IF ~organisms[i].is_alive THEN 0
    ELSE Cardinality(
            {s \in (1..Len(organisms[i].cells)) \X Adjacents :
                /\ organisms[i].cells[s[1]].state = "Mouth"
                /\ LET q == get_cell_position(organisms[i], organisms[i].cells[s[1]])
                   IN has_food_at(cells, q[1] + s[2][1], q[2] + s[2][2])})

\* The tiles that are Food and 4-adjacent to a Mouth cell of a living organism.
FoodFound ==
    {t \in Tiles : /\ cells[t].state = "Food"
                   /\ \E i \in 1..Len(organisms) :
                         organisms[i].is_alive /\ MouthBeside(organisms[i], t)}

\* C29, eating phase: the eating phase credits each alive organism one food
\* per (Mouth cell, 4-adjacent Food tile) pair, counted on the grid as it was
\* before any food was removed, and afterwards every such tile is Empty;
\* organisms without a Mouth cell and dead organisms gain nothing.
EatingPhase ==
    [][pc = "idle" /\ pc' = "combat"
          => /\ Len(organisms') = Len(organisms)
             /\ \A i \in 1..Len(organisms) :
                   organisms'[i] = [organisms[i] EXCEPT !.food_collected = @ + FoodDue(i)]
             /\ \A t \in FoodFound : cells'[t].state = "Empty"]_vars

\* When the last step() began, the organism at index i was alive and had Food
\* on a tile 4-adjacent to one of its Mouth cells.
FoodAtStart(i) ==
    /\ i <= Len(before.organisms)
    /\ before.organisms[i].is_alive
    /\ \E t \in Tiles :
          before.cells[t].state = "Food" /\ MouthBeside(before.organisms[i], t)

\* C30, two feeding mechanisms: within one step an alive organism with Food
\* adjacent to its Mouth cells is credited by the eating phase and, on top of
\* that, by the feeding of its update: its update, when it survives it, adds
\* to the food_collected that the eating phase has left.
TwoFeedings ==
    [][pc = "update" /\ idx' = idx + 1
          /\ organisms[idx].is_alive /\ organisms'[idx].is_alive
          /\ FoodAtStart(idx)
          => organisms'[idx].food_collected > organisms[idx].food_collected]_vars

NoOverlap ==
    AfterStep =>
        \A i, j \in 1..Len(organisms) :
            i # j /\ organisms[i].is_alive /\ organisms[j].is_alive
                => Footprint(organisms[i]) \cap Footprint(organisms[j]) = {}

\* C33, footprint stamped: after every step(), every body cell of every living
\* organism of the registry lies inside the grid and its tile holds the state
\* of that cell with the organism's id as owner.
FootprintStamped ==
    AfterStep =>
        \A i \in 1..Len(organisms) :
            organisms[i].is_alive =>
                \A k \in 1..Len(organisms[i].cells) :
                    LET p == get_cell_position(organisms[i], organisms[i].cells[k])
                    IN /\ InBounds(p[1], p[2])
                       /\ cells[Index(p[1], p[2])]
                             = Cell(organisms[i].cells[k].state, Some(organisms[i].id))

\* The organism at index i of the registry was alive when the eating phase of
\* the running step() ended and dead when its combat phase ended.
KilledInCombat(i) ==
    /\ i \in 1..Len(before.organisms)
    /\ LET fed == process_eating([G0 EXCEPT !.cells = before.cells,
                                            !.organisms = before.organisms])
       IN /\ fed.organisms[i].is_alive
          /\ ~process_killer_cells(fed).organisms[i].is_alive

\* Between the combat phase and the cleanup, an organism killed in combat and
\* the tiles under its body stay as they are.
KilledRests ==
    pc \in {"clear", "update", "reproduce"} =>
        \A i \in 1..Len(organisms) :
            KilledInCombat(i) =>
                /\ organisms'[i] = organisms[i]
                /\ \A t \in Footprint(organisms[i]) : cells'[t] = cells[t]

\* The turn of an organism killed in combat in the reproduction phase queues
\* no offspring and uses no id.
KilledBearsNothing ==
    pc = "reproduce" /\ idx' = idx + 1 /\ KilledInCombat(idx) =>
        new_organisms' = new_organisms /\ next_organism_id' = next_organism_id

\* The cleanup leaves no organism killed in combat in the registry.
KilledRemoved ==
    pc = "cleanup" /\ pc' = "grow" =>
        \A i \in 1..Len(organisms) :
            KilledInCombat(i) =>
                \A j \in 1..Len(organisms') : organisms'[j] # organisms[i]

\* C34, killed organisms do not act: an organism whose is_alive becomes false
\* in the combat phase of a step() does not age, feed, move, rotate or
\* reproduce later in that step, its tiles stay stamped until the cleanup, and
\* the cleanup of that step removes it.
KilledDoNotAct ==
    [][KilledRests /\ KilledBearsNothing /\ KilledRemoved]_vars

\* The organism r has reached max_lifespan once it has lived one more step.
LastTick(r) == r.lifetime + 1 >= max_lifespan(r, lifespan_multiplier)

\* The organism o is what a step() has left of the organism r: its id and
\* cells, one step older, or as old as it was and dead.
LeftOf(r, o) ==
    /\ o.id = r.id /\ o.cells = r.cells
    /\ \/ o.lifetime = r.lifetime + 1
       \/ o.lifetime = r.lifetime /\ ~o.is_alive

\* The update of a living organism adds exactly 1 to its lifetime.
AgesByOne ==
    pc = "update" /\ idx' = idx + 1 /\ organisms[idx].is_alive
        => organisms'[idx].lifetime = organisms[idx].lifetime + 1

\* A step() leaves nothing of an organism that began it on its last tick.
GoneInTime ==
    pc = "grow" /\ pc' = "idle" =>
        \A k \in 1..Len(before.organisms) :
            LastTick(before.organisms[k])
                => \A j \in 1..Len(organisms') :
                      ~LeftOf(before.organisms[k], organisms'[j])

\* C35, bounded life: with lifespan_multiplier held constant, an organism is
\* absent from the registry by the end of the step() in which its lifetime
\* reaches max(1, len(cells) * lifespan_multiplier), and its lifetime grows by
\* exactly 1 in every step in which it is alive.
BoundedLife ==
    [][AgesByOne /\ GoneInTime]_vars

\* No two body cells of org have the same relative offset (dx, dy).
OffsetsDiffer(org) ==
    \A a, b \in 1..Len(org.cells) :
        org.cells[a].x = org.cells[b].x /\ org.cells[a].y = org.cells[b].y => a = b

\* C36, distinct body offsets: every organism that create_basic_organism,
\* origin_of_life or a birth in step() adds to the registry has no two body
\* cells at the same relative offset.
DistinctBodyOffsets ==
    [][ret'.op # "add_organism"
          => \A j \in (Len(organisms) + 1)..Len(organisms') :
                OffsetsDiffer(organisms'[j])]_vars

\* The tiles that were Wall when the last step() began and under no body cell
\* of an organism of the registry, living or dead.
BareWalls ==
    {t \in DOMAIN before.cells :
        /\ before.cells[t].state = "Wall"
        /\ \A i \in 1..Len(before.organisms) : t \notin Footprint(before.organisms[i])}

\* C37, walls persist: a tile that is Wall before step() and is not covered by
\* the footprint of any organism is Wall with no owner after step().
WallsPersist ==
    AfterStep => \A t \in BareWalls : cells[t] = Cell("Wall", None)

\* A step() has returned in which a living organism with a Mover cell stayed
\* where it was, a Wall standing on the tile its move would have taken its
\* Mouth to and on the tile its rotation would have taken its Mover cell to.
WallStoodInTheWay ==
    /\ AfterStep
    /\ \E i \in 1..Len(organisms) :
          /\ organisms[i].is_alive /\ has_movers(organisms[i])
          /\ organisms[i].lifetime = 1
          /\ i <= Len(before.organisms)
          /\ organisms[i].x = before.organisms[i].x
          /\ organisms[i].rotation = before.organisms[i].rotation
          /\ LET d == to_delta(before.organisms[i].move_direction)
                 t == Index(organisms[i].x + d[1], organisms[i].y + d[2])
             IN /\ InBounds(organisms[i].x + d[1], organisms[i].y + d[2])
                /\ t \in BareWalls
                /\ cells[t] = Cell("Wall", None)

\* C38, colour buffer in every state: whenever no step() is running, on a new
\* grid as after set_cell, add_organism, create_basic_organism, reset and
\* step(), get_pixel(x, y) is the colour of the state of the tile at (x, y),
\* for every in-bounds (x, y).
ColourBuffer ==
    pc = "idle" =>
        \A x \in 0..(width - 1), y \in 0..(height - 1) :
            get_pixel(x, y) = to_color(cells[Index(x, y)].state)

----------------------------------------------------------------------------
(* The while loops that step() runs in process_reproduction, followed one      *)
(* iteration at a time on a grid seeded with a Mouth and walls: the line       *)
(* sweep of is_straight_path_clear and the resampling of mutate().             *)

\* Everything but the loop that is followed.
Grid == <<width, height, cells, pixels, organisms, next_organism_id,
          food_production_prob, max_organisms, lifespan_multiplier, insta_kill,
          food_blocks_reproduction, pc, idx, new_organisms, ret, ops, grown, births,
          before>>

\* random_cell_state() returning Mouth whatever gen_range draws.
random_cell_state_mouth == {"Mouth"}

\* The states random_cell_state() returns over the draws of gen_range(0..6).
random_cell_state == BodyStates

\* is_straight_path_clear(x1, y1, x2, y2) is called: it returns at once for
\* equal points, or sets up the variables of its while loop.
StraightPathCalled(x1, y1, x2, y2) ==
    /\ pc = "idle" /\ loop.at = "none"
    /\ ops <= MaxSeeds
    /\ LET l == [x1 |-> x1, y1 |-> y1, x2 |-> x2, y2 |-> y2,
                 dx |-> Abs(x2 - x1), dy |-> Abs(y2 - y1),
                 sx |-> IF x1 < x2 THEN 1 ELSE -1, sy |-> IF y1 < y2 THEN 1 ELSE -1]
       IN loop' = [at |-> IF x1 = x2 /\ y1 = y2 THEN "returned" ELSE "sweep",
                   l |-> l, x |-> x1, y |-> y1, err |-> l.dx - l.dy, value |-> TRUE]
    /\ UNCHANGED Grid

\* The while condition of is_straight_path_clear and, if it holds, one pass
\* through the body of the loop.
SweepIteration ==
    /\ loop.at = "sweep"
    /\ LET l == loop.l
           x == loop.x
           y == loop.y
           e2 == 2 * loop.err
           stepx == e2 > -l.dy
           stepy == e2 < l.dx
       IN IF x = l.x2 /\ y = l.y2
          THEN loop' = [loop EXCEPT !.at = "returned", !.value = TRUE]
          ELSE IF /\ (x # l.x1 \/ y # l.y1) /\ (x # l.x2 \/ y # l.y2)
                  /\ \/ x < 0 \/ y < 0 \/ x >= width \/ y >= height
                     \/ ~is_position_clear(cells, x, y)
               THEN loop' = [loop EXCEPT !.at = "returned", !.value = FALSE]
               ELSE loop' = [loop EXCEPT
                               !.x = IF stepx THEN x + l.sx ELSE x,
                               !.y = IF stepy THEN y + l.sy ELSE y,
                               !.err = @ - (IF stepx THEN l.dy ELSE 0)
                                         + (IF stepy THEN l.dx ELSE 0)]
    /\ UNCHANGED Grid

\* The change branch of mutate() has picked a cell in state `state` and makes
\* its first draw of new_state.
MutateChangesCell(state) ==
    /\ pc = "idle" /\ loop.at = "none"
    /\ ops <= MaxSeeds
    /\ \E drawn \in random_cell_state :
          loop' = [at |-> "resample", state |-> state, new_state |-> drawn]
    /\ UNCHANGED Grid

\* The while condition of the resampling and, if it holds, one more draw.
ResampleIteration ==
    /\ loop.at = "resample"
    /\ IF loop.new_state = loop.state
       THEN \E drawn \in random_cell_state : loop' = [loop EXCEPT !.new_state = drawn]
       ELSE loop' = [loop EXCEPT !.at = "returned"]
    /\ UNCHANGED Grid

\* One more draw of the resampling that gives another state than the cell's.
ResampleDiffers ==
    /\ loop.at = "resample"
    /\ loop.new_state = loop.state
    /\ \E drawn \in random_cell_state \ {loop.state} :
          loop' = [loop EXCEPT !.new_state = drawn]
    /\ UNCHANGED Grid

\* Columns of the Wall tiles painted: one beside the Mouth, one apart.
LoopXs == {1, 3}

\* Grid::new(MaxW, MaxH), random growth switched off by the driver.
InitLoops ==
    /\ width = MaxW /\ height = MaxH
    /\ cells = [i \in Tiles |-> Cell("Empty", None)]
    /\ pixels = [i \in Tiles |-> 0]
    /\ organisms = <<>>
    /\ next_organism_id = 0
    /\ food_production_prob = 0
    /\ max_organisms = 1000
    /\ lifespan_multiplier \in InitLifespans
    /\ insta_kill = FALSE
    /\ food_blocks_reproduction = TRUE
    /\ pc = "idle"
    /\ idx = 0
    /\ new_organisms = <<>>
    /\ ret = [op |-> "new", value |-> TRUE]
    /\ ops = 0
    /\ grown = 0
    /\ births = 0
    /\ before = NoStep
    /\ loop = NoLoop

\* The calls are made while no loop is followed; a loop that has returned is
\* the end of the run.
NextLoops ==
    \/ loop.at = "none" /\ \E x \in LoopXs, y \in Row : SetCell(x, y, "Wall")
    \/ loop.at = "none" /\ \E md \in DirectionDraws : AddOrganism(<<>>, 0, 0, md)
    \/ loop.at = "none" /\ ProcessEating
    \/ ProcessKillerCells
    \/ ClearFootprints
    \/ UpdateOrganism
    \/ Restamp
    \/ Reproduce
    \/ PlaceOffspring
    \/ RemoveDeadOrganisms
    \/ GrowFood
    \/ \E x1 \in 0..(width - 1), y1 \in 0..(height - 1),
          x2 \in 0..(width - 1), y2 \in 0..(height - 1) :
          StraightPathCalled(x1, y1, x2, y2)
    \/ SweepIteration
    \/ \E state \in BodyStates : MutateChangesCell(state)
    \/ ResampleIteration

\* A step() that has begun goes on, a loop that is running makes its next
\* test, and the resampling does not draw the cell's own state for ever.
SpecLoops ==
    /\ InitLoops /\ [][NextLoops]_vars
    /\ WF_vars(StepGoesOn)
    /\ WF_vars(SweepIteration)
    /\ WF_vars(ResampleIteration)
    /\ WF_vars(ResampleDiffers)

\* C39, step() terminates: a step() that has begun returns, the line sweep of
\* is_straight_path_clear returns for every pair of in-bounds anchors, and the
\* state-resampling loop of mutate() ends under fair random choice.
StepTerminates ==
    /\ ((pc # "idle") ~> (pc = "idle"))
    /\ ((loop.at \in {"sweep", "resample"}) ~> (loop.at = "returned"))

\* The sweep from one corner of the grid to the opposite one has returned true
\* at its end point, past a Wall that stands off the line.
SweptCornerToCorner ==
    /\ loop.at = "returned"
    /\ "l" \in DOMAIN loop
    /\ loop.l.dx = MaxW - 1 /\ loop.l.dy = MaxH - 1
    /\ loop.x = loop.l.x2 /\ loop.y = loop.l.y2
    /\ loop.value
    /\ \E t \in Tiles : cells[t].state = "Wall"

====
